---- MODULE Spec2Model ----
(***************************************************************************)
(* Model of AnglesToDetectionCalculator                                    *)
(* (mediapipe/calculators/util/angles_to_detection_calculator.cc): the     *)
(* FIFO of recent inferences, the time-out that clears it and the vote     *)
(* that replaces the current inference by the most frequent label.         *)
(*                                                                         *)
(* Scores are floats in the source.  They are modelled as whole numbers of *)
(* score units on the way in and as exact fractions num/den (in lowest     *)
(* terms) on the way out, so that sumScores / count is the exact mean.     *)
(* Timestamps (seconds, a double in the source) are whole numbers.         *)
(***************************************************************************)
EXTENDS Integers, Sequences, FiniteSets, TLC

\* ---- bounds of the model ------------------------------------------------
MaxQueueSize == 3       \* Spec: queue_size ranges over 0..MaxQueueSize
MaxLabel == 1           \* labels are 0..MaxLabel
MaxScore == 2           \* Spec: raw scores are 1..MaxScore units
MaxTime == 2            \* timestamps are 0..MaxTime
MaxTimeOut == 1         \* queue_time_out_s ranges over 1..MaxTimeOut
MaxVoteQueueSize == 5   \* SpecVote: queue_size ranges over 2..MaxVoteQueueSize
MaxVoteScore == 1       \* SpecVote: raw scores are 1..MaxVoteScore units

Labels == 0..MaxLabel
Scores == 1..MaxScore
VoteScores == 1..MaxVoteScore
Times == 0..MaxTime

VARIABLES
  options_,             \* the calculator's options, read in Open
  opened,               \* Open has run
  inferenceQueue,       \* the FIFO of raw inferences
  startingGestureTime,  \* timestamp of the previous mostFrequent call, 0 = none
  inputTimestamp,       \* cc->InputTimestamp().Seconds() of the latest Process
  currentInference,     \* the raw inference of the latest Process (before the vote)
  detection,            \* the (label, score) the latest Process emitted
  cleared,              \* the latest Process executed inferenceQueue.clear()
  aggregated,           \* the latest Process ran the vote
  calls,                \* number of Process calls so far, counted up to queue_size
  recentLabels,         \* labels received since the latest clear, newest last, the
                        \* clearing call's own label included, at most queue_size
  log                   \* SpecExample only: the <<raw, emitted>> pairs of the run

vars == <<options_, opened, inferenceQueue, startingGestureTime, inputTimestamp,
          currentInference, detection, cleared, aggregated, calls, recentLabels, log>>

\* ---- helpers ------------------------------------------------------------
\* A fraction num/den; den = 0 only for NaN.
Fractions == [num : Nat, den : Nat]

\* inValues_t (lines 64-67), with the score in whole units.
inValues_t == [label_ : Nat, score_ : Nat]

\* The members of the calculator (lines 69-71) and what Process leaves behind.
TypeOK ==
  /\ options_ \in [queue_size : Nat, has_queue_time_out_s : BOOLEAN, queue_time_out_s : Nat]
  /\ opened \in BOOLEAN
  /\ inferenceQueue \in Seq(inValues_t)
  /\ startingGestureTime \in Nat
  /\ inputTimestamp \in Nat
  /\ currentInference \in inValues_t
  /\ detection \in [label_ : Nat, score_ : Fractions]
  /\ cleared \in BOOLEAN
  /\ aggregated \in BOOLEAN
  /\ calls \in Nat
  /\ recentLabels \in Seq(Nat)
  /\ log \in Seq([raw : inValues_t, emitted : [label_ : Nat, score_ : Fractions]])

RECURSIVE GCD(_, _)
GCD(a, b) == IF b = 0 THEN a ELSE GCD(b, a % b)

\* The float of an undefined division 0.0f / 0.
NaN == [num |-> 0, den |-> 0]

\* sum / n as computed at lines 208-209 (float divided by int32).
Quotient(sum, n) ==
  IF n = 0 THEN NaN
  ELSE LET g == GCD(sum, n) IN [num |-> sum \div g, den |-> n \div g]

\* A raw inference as Process emits it when the vote leaves it alone.
Emitted(cur) == [label_ |-> cur.label_, score_ |-> Quotient(cur.score_, 1)]

\* The last n elements of s (all of s when it is shorter).
LastN(s, n) ==
  IF n <= 0 THEN << >>
  ELSE IF Len(s) <= n THEN s
  ELSE SubSeq(s, Len(s) - n + 1, Len(s))

\* Calls are counted up to queue_size (up to 1 when the FIFO is not used).
CapCalls == IF options_.queue_size > 1 THEN options_.queue_size ELSE 1

\* ---- the vote -----------------------------------------------------------
\* Line 194: a label takes the record only with a strictly greater count.
ExceedsOrEquals(count, record) == count >= record
Exceeds(count, record) == count > record

\* trackInferences[label]: std::map::operator[] yields a zeroed attr when absent.
Lookup(trackInferences, label) ==
  IF label \in DOMAIN trackInferences THEN trackInferences[label]
  ELSE [sumScores |-> 0, counts |-> 0]

\* Lines 183-192: count the inference under its label and add its score.
Track(trackInferences, cInference) ==
  IF cInference.label_ \notin DOMAIN trackInferences
  THEN trackInferences @@
         (cInference.label_ :> [sumScores |-> cInference.score_, counts |-> 1])
  ELSE [trackInferences EXCEPT ![cInference.label_] =
          [sumScores |-> @.sumScores + cInference.score_, counts |-> @.counts + 1]]

\* Lines 180-205: the loop over the queue, oldest inference first.
RECURSIVE Scan(_, _, _, _)
Scan(queue, i, trackInferences, highestOccurrence) ==
  IF i > Len(queue)
  THEN [trackInferences |-> trackInferences, highestOccurrence |-> highestOccurrence]
  ELSE LET cInference == queue[i]
           tracked == Track(trackInferences, cInference)
           record ==
             IF Exceeds(tracked[cInference.label_].counts, highestOccurrence.count)
             THEN [label |-> cInference.label_,
                   count |-> tracked[cInference.label_].counts]
             ELSE highestOccurrence
       IN Scan(queue, i + 1, tracked, record)

\* Lines 207-209: the mean divides the winner's sum by the winner's count.
MeanOverQueue(scan, queue) ==
  Quotient(Lookup(scan.trackInferences, scan.highestOccurrence.label).sumScores,
           Len(queue))
Mean(scan, queue) ==
  Quotient(Lookup(scan.trackInferences, scan.highestOccurrence.label).sumScores,
           scan.highestOccurrence.count)

\* Lines 156-163 and 180-209: the vote over a queue; highestOccurrence = {}.
Vote(queue) ==
  LET scan == Scan(queue, 1, << >>, [label |-> 0, count |-> 0])
  IN [label_ |-> scan.highestOccurrence.label, score_ |-> Mean(scan, queue)]

\* ---- the steps of mostFrequent ------------------------------------------
\* Line 121: the FIFO is used only with queue_size > 1.
EnabledFromOne(queue_size) == queue_size >= 1
EnabledAlways(queue_size) == TRUE
Enabled(queue_size) == queue_size > 1

\* Lines 168-170: the time-out fires.
TimedOutWithoutSentinel(currGestureTime) ==
  /\ options_.has_queue_time_out_s
  /\ currGestureTime - startingGestureTime >= options_.queue_time_out_s
TimedOutStrictly(currGestureTime) ==
  /\ options_.has_queue_time_out_s
  /\ startingGestureTime # 0
  /\ currGestureTime - startingGestureTime > options_.queue_time_out_s
TimedOut(currGestureTime) ==
  /\ options_.has_queue_time_out_s
  /\ startingGestureTime # 0
  /\ currGestureTime - startingGestureTime >= options_.queue_time_out_s

\* Line 174: the call's timestamp becomes the previous call's timestamp.
LastSeenOnClear(currGestureTime) ==
  IF TimedOut(currGestureTime) \/ startingGestureTime = 0
  THEN currGestureTime ELSE startingGestureTime
LastSeen(currGestureTime) == currGestureTime

\* Line 177: the queue has reached queue_size.
FullFromOneBelow(queue) == Len(queue) >= options_.queue_size - 1
FullBeyond(queue) == Len(queue) > options_.queue_size
Full(queue) == Len(queue) >= options_.queue_size

\* Line 178: erase the oldest inference.
EvictNothing(queue) == queue
EvictNewest(queue) == SubSeq(queue, 1, Len(queue) - 1)
Evict(queue) == Tail(queue)

\* mostFrequent with the queue cleared before the append.
mostFrequentClearsFirst(cur, currGestureTime) ==
  LET fires == TimedOut(currGestureTime)
      kept == Append(IF fires THEN << >> ELSE inferenceQueue, cur)
      votes == Full(kept)
      left == IF votes THEN Evict(kept) ELSE kept
  IN [queue |-> left,
      start |-> LastSeen(currGestureTime),
      cleared |-> fires,
      aggregated |-> votes,
      out |-> IF votes THEN Vote(left) ELSE Emitted(cur)]

\* mostFrequent with the queue's newest entry sharing the caller's inference, so
\* that the vote's label is written into the queue too.
mostFrequentSharesEntry(cur, currGestureTime) ==
  LET appended == Append(inferenceQueue, cur)
      fires == TimedOut(currGestureTime)
      kept == IF fires THEN << >> ELSE appended
      votes == Full(kept)
      left == IF votes THEN Evict(kept) ELSE kept
      out == IF votes THEN Vote(left) ELSE Emitted(cur)
  IN [queue |-> IF left = << >> THEN left
                ELSE [left EXCEPT ![Len(left)] =
                        [label_ |-> out.label_, score_ |-> cur.score_]],
      start |-> LastSeen(currGestureTime),
      cleared |-> fires,
      aggregated |-> votes,
      out |-> out]

\* Lines 150-213: mostFrequent, as the values it leaves behind.
mostFrequent(cur, currGestureTime) ==
  LET appended == Append(inferenceQueue, cur)
      fires == TimedOut(currGestureTime)
      kept == IF fires THEN << >> ELSE appended
      votes == Full(kept)
      left == IF votes THEN Evict(kept) ELSE kept
  IN [queue |-> left,
      start |-> LastSeen(currGestureTime),
      cleared |-> fires,
      aggregated |-> votes,
      out |-> IF votes THEN Vote(left) ELSE Emitted(cur)]

\* ---- the calculator -----------------------------------------------------
\* Line 70 gives startingGestureTime no initialiser: its first value is what the
\* framework's construction of the calculator leaves there, the zero that the
\* test at line 168 reads as "no previous call".
InitialGestureTime == 0

\* The calculator as constructed: the queue is empty.
Init ==
  /\ options_ = [queue_size |-> 0, has_queue_time_out_s |-> FALSE, queue_time_out_s |-> 0]
  /\ opened = FALSE
  /\ inferenceQueue = << >>
  /\ startingGestureTime = InitialGestureTime
  /\ inputTimestamp = 0
  /\ currentInference = [label_ |-> 0, score_ |-> 1]
  /\ detection = [label_ |-> 0, score_ |-> Quotient(1, 1)]
  /\ cleared = FALSE
  /\ aggregated = FALSE
  /\ calls = 0
  /\ recentLabels = << >>
  /\ log = << >>

\* Lines 92-98.
Open(queue_size, has_time_out, time_out) ==
  /\ ~opened
  /\ opened' = TRUE
  /\ options_' = [queue_size |-> queue_size,
                  has_queue_time_out_s |-> has_time_out,
                  queue_time_out_s |-> IF has_time_out THEN time_out ELSE 0]
  /\ UNCHANGED <<inferenceQueue, startingGestureTime, inputTimestamp, currentInference,
                 detection, cleared, aggregated, calls, recentLabels, log>>

\* Lines 100-148.  (label, score) is the inference lines 111-119 leave in
\* currentInference; timestamp is the packet's, never below the previous one.
Step(label, score, timestamp) ==
  /\ opened
  /\ timestamp >= inputTimestamp
  /\ LET cur == [label_ |-> label, score_ |-> score]
     IN \E r \in {IF Enabled(options_.queue_size)
                  THEN mostFrequent(cur, timestamp)
                  ELSE [queue |-> inferenceQueue, start |-> startingGestureTime,
                        cleared |-> FALSE, aggregated |-> FALSE, out |-> Emitted(cur)]} :
          /\ inferenceQueue' = r.queue
          /\ startingGestureTime' = r.start
          /\ detection' = r.out
          /\ cleared' = r.cleared
          /\ aggregated' = r.aggregated
          /\ currentInference' = cur
          /\ recentLabels' =
               LastN(Append(IF r.cleared THEN << >> ELSE recentLabels, label),
                     options_.queue_size)
  /\ inputTimestamp' = timestamp
  /\ calls' = IF calls < CapCalls THEN calls + 1 ELSE calls
  /\ UNCHANGED <<options_, opened>>

\* ---- Spec: every option setting, every input ----------------------------
OpenAny ==
  \E queue_size \in 0..MaxQueueSize, has_time_out \in BOOLEAN, time_out \in 1..MaxTimeOut :
    Open(queue_size, has_time_out, time_out)

Process ==
  \E label \in Labels, score \in Scores, timestamp \in Times :
    Step(label, score, timestamp) /\ UNCHANGED log

Next == OpenAny \/ Process

Spec == Init /\ [][Next]_vars

\* ---- SpecVote: longer queues, no time-out, one packet per tick -----------
Tick == IF calls = 0 THEN 0
        ELSE IF inputTimestamp < MaxTime THEN inputTimestamp + 1 ELSE inputTimestamp

OpenVote == \E queue_size \in 2..MaxVoteQueueSize : Open(queue_size, FALSE, 0)

ProcessVote ==
  \E label \in Labels, score \in VoteScores :
    Step(label, score, Tick) /\ UNCHANGED log

NextVote == OpenVote \/ ProcessVote

SpecVote == Init /\ [][NextVote]_vars

\* ---- SpecExample: the worked example's options and observations ---------
\* Scores in tenths: (1, 0.5), (1, 0.7), (2, 0.9), (1, 0.6) at timestamps 0, 1, 2, 3.
ExampleInputs ==
  << [label_ |-> 1, score_ |-> 5], [label_ |-> 1, score_ |-> 7],
     [label_ |-> 2, score_ |-> 9], [label_ |-> 1, score_ |-> 6] >>

\* The outputs the example states: (1, 0.5), (1, 0.7), (1, 0.6), (1, 0.65).
ExampleOutputs ==
  << [label_ |-> 1, score_ |-> Quotient(5, 1)], [label_ |-> 1, score_ |-> Quotient(7, 1)],
     [label_ |-> 1, score_ |-> Quotient(6, 1)], [label_ |-> 1, score_ |-> Quotient(13, 2)] >>

OpenExample == Open(3, FALSE, 0)

\* Any of the example's observations may arrive; the k-th call has timestamp k - 1.
ProcessExample ==
  /\ Len(log) < Len(ExampleInputs)
  /\ \E i \in DOMAIN ExampleInputs :
       /\ Step(ExampleInputs[i].label_, ExampleInputs[i].score_, Len(log))
       /\ log' = Append(log, [raw |-> ExampleInputs[i], emitted |-> detection'])

NextExample == OpenExample \/ ProcessExample

SpecExample == Init /\ [][NextExample]_vars

\* ---- what the claims speak of -------------------------------------------
\* Number of entries of a sequence of labels that are label l.
CountOf(labels, l) == Cardinality({i \in DOMAIN labels : labels[i] = l})

\* The labels of a queue, in order.
LabelsOf(queue) == [i \in DOMAIN queue |-> queue[i].label_]

\* Sum of the scores of the entries of queue that carry label l.
RECURSIVE SumOf(_, _)
SumOf(queue, l) ==
  IF queue = << >> THEN 0
  ELSE (IF Head(queue).label_ = l THEN Head(queue).score_ ELSE 0) + SumOf(Tail(queue), l)

\* The greatest per-label count in a sequence of labels.
MaxCount(labels) ==
  CHOOSE n \in 0..Len(labels) :
    /\ \A i \in DOMAIN labels : CountOf(labels, labels[i]) <= n
    /\ labels # << >> => \E i \in DOMAIN labels : CountOf(labels, labels[i]) = n

\* The labels that tie for the greatest count.
Tied(labels) == {labels[i] : i \in {j \in DOMAIN labels : CountOf(labels, labels[j]) = MaxCount(labels)}}

\* Index of the first and of the last occurrence of l in labels.
FirstAt(labels, l) == CHOOSE i \in DOMAIN labels :
  labels[i] = l /\ \A j \in 1..(i - 1) : labels[j] # l
LastAt(labels, l) == CHOOSE i \in DOMAIN labels :
  labels[i] = l /\ \A j \in (i + 1)..Len(labels) : labels[j] # l

\* The latest step was a Process call on a calculator that uses the FIFO.
Called == opened /\ calls >= 1
Stabilizing == Called /\ options_.queue_size > 1

\* ---- C1 -----------------------------------------------------------------
\* C1: in the worked example (queue_size 3, no time-out, the four observations
\* in order at timestamps 0..3) the calls emit (1,0.5), (1,0.7), (1,0.6), (1,0.65):
\* whenever the run so far is a prefix of the example's inputs, what was emitted
\* is the same prefix of the example's outputs.
C1_ExampleOutputs ==
  (\A k \in DOMAIN log : log[k].raw = ExampleInputs[k])
    => \A k \in DOMAIN log : log[k].emitted = ExampleOutputs[k]

\* ---- C2 -----------------------------------------------------------------
\* C2: once queue_size observations have arrived since the last reset, a label that
\* occurs strictly more often than every other label among the queue_size most
\* recent ones (the current one included) is the label emitted.
C2_Majority ==
  (Called /\ options_.queue_size >= 1 /\ Len(recentLabels) = options_.queue_size)
    => \A l \in Labels :
         (\A m \in Labels \ {l} : CountOf(recentLabels, l) > CountOf(recentLabels, m))
           => detection.label_ = l

\* ---- C3 -----------------------------------------------------------------
\* C3 as stated: when the vote runs and labels tie for the highest count among the
\* voted entries, the label emitted is the tied label whose first occurrence there
\* is the earliest.
C3_FirstOccurrenceWins ==
  (Stabilizing /\ aggregated /\ Cardinality(Tied(LabelsOf(inferenceQueue))) >= 2)
    => LET labels == LabelsOf(inferenceQueue)
       IN /\ detection.label_ \in Tied(labels)
          /\ \A m \in Tied(labels) :
               FirstAt(labels, detection.label_) <= FirstAt(labels, m)

\* C3 amended: when the vote runs and labels tie for the highest count among the
\* voted entries, the label emitted is the tied label whose count reaches that
\* highest count first in arrival order, that is the tied label whose last
\* occurrence among the voted entries is the earliest.
C3_FirstToReachWins ==
  (Stabilizing /\ aggregated /\ Cardinality(Tied(LabelsOf(inferenceQueue))) >= 2)
    => LET labels == LabelsOf(inferenceQueue)
       IN /\ detection.label_ \in Tied(labels)
          /\ \A m \in Tied(labels) :
               LastAt(labels, detection.label_) <= LastAt(labels, m)

\* A vote over a tie that the label occurring first does not win.
C3_Witness ==
  /\ Stabilizing /\ aggregated
  /\ Cardinality(Tied(LabelsOf(inferenceQueue))) >= 2
  /\ inferenceQueue[1].label_ \in Tied(LabelsOf(inferenceQueue))
  /\ detection.label_ # inferenceQueue[1].label_

\* ---- C4 -----------------------------------------------------------------
\* C4: a call on which the time-out fires clears the window before appending, so
\* after the call the window holds exactly the current observation.
C4_ClearBeforeAppend ==
  (Stabilizing /\ cleared) => inferenceQueue = <<currentInference>>

\* ---- C5 -----------------------------------------------------------------
\* C5: with queue_size > 1 and a time-out T configured, every call but the first
\* whose timestamp is at least T after the previous call's clears the window.
C5_GapClears ==
  [][(/\ Stabilizing
      /\ options_.has_queue_time_out_s
      /\ inputTimestamp' - inputTimestamp >= options_.queue_time_out_s)
       => cleared']_vars

\* ---- C6 -----------------------------------------------------------------
\* C6: with a time-out T configured and the window filled as far as it gets, a call
\* at least T after the previous one emits its raw observation and leaves no entry
\* from before the call in the window.
C6_ResetEmitsRaw ==
  [][(/\ Stabilizing
      /\ options_.has_queue_time_out_s
      /\ Len(inferenceQueue) = options_.queue_size - 1
      /\ inputTimestamp' - inputTimestamp >= options_.queue_time_out_s)
       => /\ detection' = Emitted(currentInference')
          /\ inferenceQueue' \in {<< >>, <<currentInference'>>}]_vars

\* ---- C7 -----------------------------------------------------------------
\* C7: the window never holds more than queue_size entries after a call.
C7_WindowBound == Len(inferenceQueue) <= options_.queue_size

\* A call that appended to a window already as long as it gets between calls.
C7_Witness ==
  /\ Stabilizing /\ aggregated
  /\ options_.queue_size >= 3
  /\ Len(inferenceQueue) = options_.queue_size - 1

\* ---- C8 -----------------------------------------------------------------
\* C8: when the vote runs, the score emitted is the sum of the scores of the window
\* entries that carry the emitted label divided by the number of those entries,
\* over the window as the call leaves it.
C8_MeanScore ==
  (Stabilizing /\ aggregated)
    => /\ CountOf(LabelsOf(inferenceQueue), detection.label_) >= 1
       /\ detection.score_ =
            Quotient(SumOf(inferenceQueue, detection.label_),
                     CountOf(LabelsOf(inferenceQueue), detection.label_))

\* A vote whose winner carries two different scores: the mean is no whole number.
C8_Witness ==
  /\ Stabilizing /\ aggregated
  /\ CountOf(LabelsOf(inferenceQueue), detection.label_) >= 2
  /\ detection.score_.den > 1

\* ---- C9 -----------------------------------------------------------------
\* C9: with queue_size > 1, every call among the first queue_size - 1 emits its raw
\* observation; and every call on which the window, after the append and any
\* clear, is shorter than queue_size emits its raw observation, runs no vote and
\* evicts nothing.
C9_BelowCapacity ==
  /\ []((Stabilizing /\ calls < options_.queue_size)
          => (detection = Emitted(currentInference) /\ ~aggregated))
  /\ [][(/\ opened
         /\ options_.queue_size > 1
         /\ (cleared' \/ Len(inferenceQueue) + 1 < options_.queue_size))
          => /\ detection' = Emitted(currentInference')
             /\ ~aggregated'
             /\ inferenceQueue' =
                  IF cleared' THEN << >> ELSE Append(inferenceQueue, currentInference')]_vars

\* The second of two calls with queue_size 3: the window holds another label, the
\* current observation is emitted as it came.
C9_Witness ==
  /\ Stabilizing
  /\ options_.queue_size = 3 /\ calls = 2
  /\ Len(inferenceQueue) = 2
  /\ inferenceQueue[1].label_ # currentInference.label_
  /\ detection = Emitted(currentInference)

\* ---- C10 ----------------------------------------------------------------
\* C10: with queue_size <= 1 every call emits its raw observation, whatever the
\* time-out setting.
C10_Disabled ==
  (Called /\ options_.queue_size <= 1)
    => (detection = Emitted(currentInference) /\ ~aggregated)

\* A call with queue_size 1 and a time-out configured, at a timestamp no less
\* than the time-out.
C10_Witness ==
  /\ Called
  /\ options_.queue_size = 1
  /\ options_.has_queue_time_out_s
  /\ inputTimestamp >= options_.queue_time_out_s
  /\ detection = Emitted(currentInference)

\* ---- C11 ----------------------------------------------------------------
\* C11: the first call of an instance never clears the window, whatever its
\* timestamp and whatever time-out is configured, and leaves its observation in
\* the window.
C11_FirstCallKeeps ==
  (Stabilizing /\ calls = 1)
    => (~cleared /\ inferenceQueue = <<currentInference>>)

\* A first call with a time-out configured, at a timestamp no less than the
\* time-out.
C11_Witness ==
  /\ Stabilizing /\ calls = 1
  /\ options_.has_queue_time_out_s
  /\ inputTimestamp >= options_.queue_time_out_s
  /\ inferenceQueue = <<currentInference>>

\* ---- C12 ----------------------------------------------------------------
\* C12: with queue_size > 1 a call clears the window exactly when a time-out is
\* configured, the previous call's stored timestamp is not zero and the call's
\* timestamp is at least the time-out later (a gap equal to the time-out clears,
\* a smaller one does not); a call after a call at timestamp 0 never clears.
C12_ExactReset ==
  [][(opened /\ options_.queue_size > 1)
       => LET due == /\ options_.has_queue_time_out_s
                     /\ startingGestureTime # 0
                     /\ inputTimestamp' - startingGestureTime >= options_.queue_time_out_s
          IN /\ cleared' <=> due
             /\ (inferenceQueue' = << >>) <=> due
             /\ (calls >= 1 /\ inputTimestamp = 0) => inferenceQueue' # << >>]_vars

\* A call that cleared the window at a gap equal to the time-out: the previous
\* timestamp is neither zero nor less than a time-out before this one.
C12_Witness ==
  /\ Stabilizing /\ cleared
  /\ inferenceQueue = << >>
  /\ inputTimestamp = options_.queue_time_out_s + 1

\* ---- C13 ----------------------------------------------------------------
\* C13: when the vote runs, it runs over the window after the single front
\* eviction; the label emitted has the greatest count there, and among the labels
\* with that count it is the one whose count reached it first, oldest to newest.
C13_Winner ==
  [][(opened /\ options_.queue_size > 1 /\ aggregated')
       => LET voted == Tail(Append(inferenceQueue, currentInference'))
              labels == LabelsOf(voted)
          IN /\ inferenceQueue' = voted
             /\ voted # << >>
             /\ \A m \in Labels :
                  /\ CountOf(labels, detection'.label_) >= CountOf(labels, m)
                  /\ CountOf(labels, detection'.label_) = CountOf(labels, m)
                       => LastAt(labels, detection'.label_) <= LastAt(labels, m)]_vars

\* A vote over at least three entries in which the newest label only equals the
\* record and the older label is emitted.
C13_Witness ==
  /\ Stabilizing /\ aggregated
  /\ Len(inferenceQueue) >= 3
  /\ Cardinality(Tied(LabelsOf(inferenceQueue))) >= 2
  /\ detection.label_ # currentInference.label_
  /\ currentInference.label_ \in Tied(LabelsOf(inferenceQueue))

\* ---- C14 ----------------------------------------------------------------
\* C14: a call that evicts finds exactly queue_size entries in the window after
\* its append, removes the oldest one only and returns with queue_size - 1.
C14_EvictAtCapacity ==
  [][(opened /\ options_.queue_size > 1 /\ aggregated')
       => /\ Len(Append(inferenceQueue, currentInference')) = options_.queue_size
          /\ inferenceQueue' = Tail(Append(inferenceQueue, currentInference'))
          /\ Len(inferenceQueue') = options_.queue_size - 1]_vars

\* An eviction that removed an entry unlike the ones that stay.
C14_Witness ==
  /\ Stabilizing /\ aggregated
  /\ Len(recentLabels) = options_.queue_size
  /\ Len(inferenceQueue) = options_.queue_size - 1
  /\ \A i \in DOMAIN inferenceQueue : inferenceQueue[i].label_ # recentLabels[1]

\* ---- C15 ----------------------------------------------------------------
\* Sequence s is a suffix of sequence t.
IsSuffix(s, t) == Len(s) <= Len(t) /\ s = LastN(t, Len(s))

\* C15: the window is a contiguous suffix, in arrival order, of the raw
\* observations received since the last clear: its labels are a suffix of the
\* labels received since then, and every call leaves a suffix of the window it
\* found followed by its raw observation (or nothing, when it clears), so stored
\* entries are raw and never change.
C15_WindowContent ==
  /\ [](Stabilizing => IsSuffix(LabelsOf(inferenceQueue), recentLabels))
  /\ [][(opened /\ options_.queue_size > 1)
          => /\ IsSuffix(inferenceQueue', Append(inferenceQueue, currentInference'))
             /\ inferenceQueue' # << >>
                  => inferenceQueue'[Len(inferenceQueue')] = currentInference']_vars

\* A vote that emitted another label than the one it received: the window keeps
\* the raw observation.
C15_Witness ==
  /\ Stabilizing /\ aggregated
  /\ detection.label_ # currentInference.label_
  /\ inferenceQueue[Len(inferenceQueue)] = currentInference

\* ---- C16 ----------------------------------------------------------------
\* C16: after every call with queue_size > 1 the stored timestamp is that call's,
\* whether or not the call cleared the window or voted.
C16_LastSeen == Stabilizing => startingGestureTime = inputTimestamp

\* A call that voted, cleared nothing and came later than the call before it.
C16_Witness ==
  /\ Stabilizing /\ aggregated /\ ~cleared
  /\ options_.has_queue_time_out_s
  /\ inputTimestamp = MaxTime
  /\ startingGestureTime = inputTimestamp

\* ---- C17 ----------------------------------------------------------------
\* C17: with queue_size <= 1 a call changes neither the window nor the stored
\* timestamp.
C17_DisabledFrame ==
  [][(opened /\ options_.queue_size <= 1)
       => UNCHANGED <<inferenceQueue, startingGestureTime>>]_vars

\* A call with queue_size <= 1 at a timestamp above zero: the window is empty and
\* the stored timestamp still zero.
C17_Witness ==
  /\ Called
  /\ options_.queue_size <= 1
  /\ inputTimestamp > 0
  /\ inferenceQueue = << >>
  /\ startingGestureTime = InitialGestureTime

\* ---- C18 ----------------------------------------------------------------
\* C18: with queue_size = 2 every call emits its raw observation, whatever the
\* time-out setting: a vote there runs over the one entry left after the eviction.
C18_SizeTwoPassthrough ==
  (Called /\ options_.queue_size = 2)
    => /\ detection = Emitted(currentInference)
       /\ aggregated => inferenceQueue = <<currentInference>>

\* A vote with queue_size 2 after two observations with different labels.
C18_Witness ==
  /\ Called /\ options_.queue_size = 2
  /\ aggregated
  /\ Len(recentLabels) = 2
  /\ recentLabels[1] # recentLabels[2]
  /\ detection = Emitted(currentInference)

\* ---- C19 ----------------------------------------------------------------
\* C19: with queue_size > 1 the vote never runs on an empty window: a call that
\* votes has not cleared, evicts from a window that is not empty, votes over at
\* least one entry, the newest of them its own observation, divides by a count of
\* at least one and emits the label of an entry it voted over.
C19_VoteNotEmpty ==
  (Stabilizing /\ aggregated)
    => /\ ~cleared
       /\ Len(recentLabels) >= 1
       /\ inferenceQueue # << >>
       /\ inferenceQueue[Len(inferenceQueue)] = currentInference
       /\ detection.score_ # NaN
       /\ detection.score_.den >= 1
       /\ CountOf(LabelsOf(inferenceQueue), detection.label_) >= 1

\* A vote, with a time-out configured, over entries none of which has label 0.
C19_Witness ==
  /\ Stabilizing /\ aggregated
  /\ options_.has_queue_time_out_s
  /\ \A i \in DOMAIN inferenceQueue : inferenceQueue[i].label_ # 0
  /\ detection.label_ # 0

\* ---- C20 ----------------------------------------------------------------
\* C20: a call on which the time-out fires returns with the window empty, its own
\* observation dropped too, and emits that observation; the window then grows by
\* at most one entry a call and a vote needs queue_size - 1 entries in it, so the
\* next vote comes no sooner than queue_size calls later; and a call at least a
\* time-out after a call with a timestamp other than zero leaves the window empty
\* and runs no vote, so a run of such calls never votes.
C20_ResetDropsSample ==
  /\ [](Stabilizing /\ cleared
          => /\ inferenceQueue = << >>
             /\ ~aggregated
             /\ detection = Emitted(currentInference))
  /\ [][(opened /\ options_.queue_size > 1)
          => /\ Len(inferenceQueue') <= Len(inferenceQueue) + 1
             /\ aggregated' => Len(inferenceQueue) = options_.queue_size - 1
             /\ (/\ calls >= 1
                 /\ options_.has_queue_time_out_s
                 /\ inputTimestamp # 0
                 /\ inputTimestamp' - inputTimestamp >= options_.queue_time_out_s)
                  => (inferenceQueue' = << >> /\ ~aggregated')]_vars

\* A clear on a call that would have voted: queue_size calls were made and the
\* window is empty.
C20_Witness ==
  /\ Stabilizing /\ cleared
  /\ calls = options_.queue_size
  /\ inferenceQueue = << >>

====
